---- MODULE Spec2Model ----
(***************************************************************************)
(* ota-imageserver: the index / bitmap / diff protocol between client.go   *)
(* and server.go.  The server holds one source archive; the client fetches *)
(* its hash-only index, scans the local reference tree, packs a bitmap of  *)
(* the files it lacks, fetches those and appends them to its output.       *)
(***************************************************************************)
EXTENDS Integers, Sequences, FiniteSets, TLC

\* ------------------------------------------------------------------ bounds
\* longest source archive built freely from EntryAlphabet
MaxLen == 3
\* longest source archive made of nonzero-size regular files only
MaxRegs == 9
\* longest bitmap a peer other than the client posts
MaxBitmapLen == 2
\* requests the server serves at the same time
NumConns == 2

\* ------------------------------------------------------- program constants
Sha1Size == 20
ByteMod == 256
StatusOK == 200
StatusNotFound == 404
StatusMethodNotAllowed == 405
StatusInternalServerError == 500
\* no status line was written before the handler ended
NoStatus == 0

\* ------------------------------------------------------------ tar entries
\* Typeflag values of archive/tar: '0' regular, '5' directory, '2' symlink,
\* '7' stands for the kinds that are not '0' and still carry a payload.
TypeReg == "0"
TypeDir == "5"
TypeSymlink == "2"
TypeCont == "7"

Header(name, typeflag, data) ==
    [name |-> name, typeflag |-> typeflag, size |-> Len(data), data |-> data]

EntryAlphabet ==
    { Header("a/", TypeDir, <<>>),
      Header("a/l", TypeSymlink, <<>>),
      Header("a/e", TypeReg, <<>>),
      Header("a/x", TypeReg, <<1>>),
      Header("a/y", TypeReg, <<2, 2>>),
      Header("a/c", TypeCont, <<1, 2>>) }

RECURSIVE SeqsUpTo(_, _)
SeqsUpTo(S, n) ==
    IF n = 0 THEN {<<>>}
    ELSE LET shorter == SeqsUpTo(S, n - 1)
         IN  shorter \cup {Append(s, x) : s \in shorter, x \in S}

RegularRun(n) == [i \in 1..n |-> Header("f" \o ToString(i), TypeReg, <<1>>)]

Archives ==
    SeqsUpTo(EntryAlphabet, MaxLen)
        \cup {RegularRun(n) : n \in (MaxRegs - 2)..MaxRegs}

\* contents a file of the reference tree may have
Contents == {<<>>, <<1>>, <<2>>, <<2, 2>>}
NoFile == [exists |-> FALSE, data |-> <<>>]
File(data) == [exists |-> TRUE, data |-> data]
LocalFiles == {NoFile} \cup {File(d) : d \in Contents}

\* ----------------------------------------------------------- ContentHash
\* sha1 as an injective 20-byte digest of the bounded contents
Sha1Sum(data) ==
    [i \in 1..Sha1Size |-> IF i <= Len(data) THEN 100 + data[i] ELSE Len(data)]

\* hex.EncodeToString: two digits per byte
EncodeToString(bytes) ==
    [i \in 1..(2 * Len(bytes)) |->
        IF i % 2 = 1 THEN bytes[(i + 1) \div 2] \div 16
        ELSE bytes[i \div 2] % 16]

\* --------------------------------------------------------------- bit ops
RECURSIVE Pow2(_)
Pow2(n) == IF n = 0 THEN 1 ELSE 2 * Pow2(n - 1)

\* (b >> i) & 1
ShiftAnd1(b, i) == (b \div Pow2(i)) % 2

\* byte(b | (1 << i))
OrBit(b, i) == IF ShiftAnd1(b, i) = 1 THEN b ELSE (b + Pow2(i)) % ByteMod

\* --------------------------------------------------------------- server
VARIABLES
    archive,      \* entries of the source archive under tarfolder
    fileState,    \* "ok", "absent", "badgzip" or "truncated" (tar stream cut)
    serverUp,     \* the server process is running
    req,          \* the last request sent to the server
    resp,         \* the response to it
    conns         \* per connection: the request being served, step by step

NoBody == [kind |-> "none", data |-> <<>>]
GzipBody(bytes) == [kind |-> "gz", data |-> bytes]
GarbageBody == [kind |-> "garbage", data |-> <<>>]
TruncatedGzipBody == [kind |-> "truncgz", data |-> <<>>]

Request(from, method, body) == [from |-> from, method |-> method, body |-> body]
NoRequest == Request("none", "none", NoBody)

TextResponse(status, text) ==
    [status |-> status, kind |-> "text", text |-> text, entries |-> <<>>,
     complete |-> FALSE, outcome |-> "returned", counters |-> <<>>]
\* nothing was written to w when the handler ended
EmptyResponse(outcome) ==
    [status |-> NoStatus, kind |-> "none", text |-> "", entries |-> <<>>,
     complete |-> FALSE, outcome |-> outcome, counters |-> <<>>]
\* a gzip'ed tar stream; complete iff tarout and archiveout were closed
TgzResponse(entries, outcome, counters) ==
    [status |-> IF outcome = "returned" \/ entries # <<>>
                THEN StatusOK ELSE NoStatus,
     kind |-> "tgz", text |-> "", entries |-> entries,
     complete |-> (outcome = "returned"), outcome |-> outcome,
     counters |-> counters]
NoResponse == EmptyResponse("none")

\* io.Copy(tarout, tr) after WriteHeader(hdr): the entry as written
WithPayload(hdr) == [hdr EXCEPT !.data = IF hdr.size > 0 THEN hdr.data ELSE <<>>]

\* mutant of IndexCounted: empty regular files are hashed too
IndexCounted_AnyRegular(hdr) == hdr.typeflag = TypeReg

\* server.go:171
IndexCounted(hdr) == hdr.typeflag = TypeReg /\ hdr.size > 0

IndexEntry(hdr) ==
    IF IndexCounted(hdr)
    THEN [hdr EXCEPT !.size = Sha1Size, !.data = Sha1Sum(hdr.data)]
    ELSE WithPayload(hdr)

RECURSIVE IndexLoop(_, _, _)
IndexLoop(tr, pos, tarout) ==
    IF pos > Len(tr) THEN tarout
    ELSE IndexLoop(tr, pos + 1, Append(tarout, IndexEntry(tr[pos])))

\* the outcome of tr.Next() at the end of the stream: io.EOF ends the loop,
\* any other error goes to log.Fatal, which exits the process
EndOfStream == IF fileState = "truncated" THEN "exit" ELSE "returned"

indextarhandler ==
    IF fileState = "absent"
    THEN TextResponse(StatusNotFound, "404 - File not found!")
    ELSE IF fileState = "badgzip"
    THEN TextResponse(StatusNotFound, "500 - cannot read tgz file!")
    ELSE TgzResponse(IndexLoop(archive, 1, <<>>), EndOfStream, <<>>)

\* mutant of DiffCounted: empty regular files take a counter value too
DiffCounted_AnyRegular(hdr) == hdr.typeflag = TypeReg

\* server.go:93
DiffCounted(hdr) == hdr.typeflag = TypeReg /\ hdr.size > 0

\* server.go:100
OutOfBounds(byteindex, length) == byteindex > length

\* server.go:95
DiffByteIndex(index) == index \div 8

\* server.go:96
DiffBitIndex(index) == 7 - (index % 8)

\* mutant of Requested: the byte is read LSB first
Requested_LsbFirst(bitmap, byteindex, bitindex) ==
    ShiftAnd1(bitmap[byteindex + 1], 7 - bitindex) = 1

\* server.go:106
Requested(bitmap, byteindex, bitindex) ==
    ShiftAnd1(bitmap[byteindex + 1], bitindex) = 1

NoCounter == -1

\* The walk of difftarhandler.  acc.tarout: the entries written so far;
\* acc.counters: per source entry, the regularfileindex it got or NoCounter.
RECURSIVE DiffLoop(_, _, _, _, _)
DiffLoop(tr, bitmap, pos, regularfileindex, acc) ==
    IF pos > Len(tr) THEN [acc EXCEPT !.outcome = EndOfStream]
    ELSE LET hdr == tr[pos] IN
         IF DiffCounted(hdr)
         THEN LET byteindex == DiffByteIndex(regularfileindex)
                  bitindex == DiffBitIndex(regularfileindex)
                  next == regularfileindex + 1
                  seen == Append(acc.counters, regularfileindex)
              IN  IF OutOfBounds(byteindex, Len(bitmap))
                  THEN \* log.Fatalln
                       [acc EXCEPT !.counters = seen, !.outcome = "exit"]
                  ELSE IF byteindex >= Len(bitmap)
                  THEN \* index out of range: a run-time panic
                       [acc EXCEPT !.counters = seen, !.outcome = "panic"]
                  ELSE IF Requested(bitmap, byteindex, bitindex)
                  THEN DiffLoop(tr, bitmap, pos + 1, next,
                                [acc EXCEPT !.counters = seen,
                                            !.tarout = Append(@, hdr)])
                  ELSE DiffLoop(tr, bitmap, pos + 1, next,
                                [acc EXCEPT !.counters = seen])
         ELSE DiffLoop(tr, bitmap, pos + 1, regularfileindex,
                       [acc EXCEPT !.counters = Append(@, NoCounter)])

difftarhandler(body) ==
    IF body.kind # "gz" /\ body.kind # "truncgz"
    THEN EmptyResponse("panic")     \* gzip.NewReader(r.Body) failed
    ELSE IF body.kind = "truncgz"
    THEN TextResponse(StatusInternalServerError,
                      "500 - Cannot read request bitmap!")
    ELSE IF fileState = "absent"
    THEN TextResponse(StatusNotFound, "404 - File not found!")
    ELSE IF fileState = "badgzip"
    THEN TextResponse(StatusNotFound, "500 - cannot read tgz file!")
    ELSE LET walk == DiffLoop(archive, body.data, 1, 0,
                        [tarout |-> <<>>, counters |-> <<>>, outcome |-> "returned"])
         IN  TgzResponse(walk.tarout, walk.outcome, walk.counters)

\* mutant of handler: whatever is not a POST is served as a GET
handler_NoMethodCheck(method, body) ==
    IF method = "POST" THEN difftarhandler(body) ELSE indextarhandler

handler(method, body) ==
    IF method = "GET" THEN indextarhandler
    ELSE IF method = "POST" THEN difftarhandler(body)
    ELSE TextResponse(StatusMethodNotAllowed, "405 - unsupported method")

\* log.Fatal ends the process; a panic is recovered by net/http and ends
\* only the request
StillUp(response) == response.outcome # "exit"

\* --------------------------------------------------------------- client
VARIABLES
    pc,                   \* the phase client.go's main is in
    tr,                   \* entries of the tar reader (index, then diff)
    pos,                  \* the entry tr.Next() returns next
    trout,                \* entries written to the output archive
    closes,               \* times trout/archiveout were closed
    requestefilesbitmap,  \* the bytes of the bitmap buffer
    regularfileindex,     \* uint32; an archive here has far fewer entries
    bitindex,
    bitmapbyte,
    missingfiles,
    tmpfile,              \* /tmp/<hash>.tmp
    uselocalfile,
    decisions,            \* per counter value: the entry was marked missing
    counters              \* per index entry: its counter value or NoCounter

serverVars == <<archive, fileState, serverUp, req, resp, conns>>
scanVars == <<requestefilesbitmap, regularfileindex, bitindex, bitmapbyte,
              missingfiles, tmpfile, uselocalfile, decisions, counters>>
vars == <<archive, fileState, serverUp, req, resp, conns, pc, tr, pos, trout, closes,
          requestefilesbitmap, regularfileindex, bitindex, bitmapbyte,
          missingfiles, tmpfile, uselocalfile, decisions, counters>>

\* a connection of the server: net/http runs handler on a goroutine of its
\* own per request; method, body, pos, regularfileindex, tarout are that
\* call's locals
Conns == 1..NumConns
IdleConn ==
    [state |-> "idle", method |-> "none", body |-> NoBody, pos |-> 1,
     regularfileindex |-> 0, tarout |-> <<>>, counters |-> <<>>,
     resp |-> NoResponse]

ByteVals == {0, 64, 160, 255}
Bitmaps == SeqsUpTo(ByteVals, MaxBitmapLen)

PeerRequests ==
    {Request("peer", "GET", NoBody), Request("peer", "PUT", NoBody),
     Request("peer", "POST", GarbageBody),
     Request("peer", "POST", TruncatedGzipBody)}
        \cup {Request("peer", "POST", GzipBody(b)) : b \in Bitmaps}

Init ==
    /\ \/ fileState = "ok" /\ archive \in Archives
       \/ fileState \in {"absent", "badgzip"} /\ archive = <<>>
       \/ fileState = "truncated" /\ archive \in SeqsUpTo(EntryAlphabet, 1)
    /\ serverUp = TRUE
    /\ req = NoRequest
    /\ resp = NoResponse
    /\ conns = [i \in Conns |-> IdleConn]
    /\ pc = "RequestIndex"
    /\ tr = <<>>
    /\ pos = 1
    /\ trout = <<>>
    /\ closes = 0
    /\ requestefilesbitmap = <<>>
    /\ regularfileindex = 0
    /\ bitindex = 0
    /\ bitmapbyte = 0
    /\ missingfiles = 0
    /\ tmpfile = NoFile
    /\ uselocalfile = TRUE
    /\ decisions = <<>>
    /\ counters = <<>>

\* Another HTTP peer sends a request before the client runs; the handler runs
\* to its end.  The handlers keep nothing between requests but whether the
\* process is up, so one such request reaches every state a series reaches.
PeerRequest ==
    /\ pc = "RequestIndex"
    /\ req = NoRequest
    /\ serverUp
    /\ \E r \in PeerRequests :
        /\ req' = r
        /\ resp' = handler(r.method, r.body)
        /\ serverUp' = StillUp(handler(r.method, r.body))
    /\ UNCHANGED <<archive, fileState, conns, pc, tr, pos, trout, closes>>
    /\ UNCHANGED scanVars

\* what http.Get / http.Post leave the client with: with the server down the
\* call fails; a body that is no complete gzip stream fails io.Copy or
\* gzip.NewReader.  All of these panic.
Readable(response) == response.kind = "tgz" /\ response.complete

\* step 1: http.Get, gzip.NewReader, os.Create(tgzdst)
RequestIndex ==
    /\ pc = "RequestIndex"
    /\ req' = Request("client", "GET", NoBody)
    /\ resp' = IF serverUp THEN handler("GET", NoBody) ELSE NoResponse
    /\ serverUp' = (serverUp /\ StillUp(handler("GET", NoBody)))
    /\ IF serverUp /\ Readable(handler("GET", NoBody))
       THEN /\ pc' = "ScanLocal"
            /\ tr' = handler("GET", NoBody).entries
       ELSE /\ pc' = "Failed"
            /\ tr' = tr
    /\ pos' = 1
    /\ UNCHANGED <<archive, fileState, conns, trout, closes>>
    /\ UNCHANGED scanVars

\* client.go:204
ClientCounted(hdr) == hdr.typeflag = TypeReg /\ hdr.size > 0

\* mutant of ClientBitIndex: the byte is packed LSB first
ClientBitIndex_LsbFirst(index) == index % 8

\* client.go:206
ClientBitIndex(index) == 7 - (index % 8)

\* copyfile(tgzref+hdr.Name, tmpfilename): the destination it leaves
copyfile(src) == IF src.exists THEN File(src.data) ELSE NoFile

\* n of tr.Read(hash)
ReadHashLen(hdr) == IF Len(hdr.data) < Sha1Size THEN Len(hdr.data) ELSE Sha1Size

\* a counted index entry: counter, hash, copy of the local file
ScanRegular ==
    /\ pc = "ScanLocal"
    /\ pos <= Len(tr)
    /\ ClientCounted(tr[pos])
    /\ bitindex' = ClientBitIndex(regularfileindex)
    /\ regularfileindex' = regularfileindex + 1
    /\ counters' = Append(counters, regularfileindex)
    /\ IF ReadHashLen(tr[pos]) # Sha1Size
       THEN /\ pc' = "Failed"
            /\ UNCHANGED <<tmpfile, uselocalfile>>
       ELSE /\ pc' = "CompareLocal"
            /\ \E src \in LocalFiles :
                /\ tmpfile' = copyfile(src)
                /\ uselocalfile' = src.exists
    /\ UNCHANGED serverVars
    /\ UNCHANGED <<tr, pos, trout, closes, requestefilesbitmap, bitmapbyte,
                   missingfiles, decisions>>

\* dirs, links, empty files: written without changes
ScanOther ==
    /\ pc = "ScanLocal"
    /\ pos <= Len(tr)
    /\ ~ClientCounted(tr[pos])
    /\ trout' = Append(trout, WithPayload(tr[pos]))
    /\ counters' = Append(counters, NoCounter)
    /\ pos' = pos + 1
    /\ UNCHANGED serverVars
    /\ UNCHANGED <<pc, tr, closes, requestefilesbitmap, regularfileindex,
                   bitindex, bitmapbyte, missingfiles, tmpfile, uselocalfile,
                   decisions>>

\* os.Stat(tmpfilename) fails: fi is nil and fi.Size() panics
StatFails ==
    /\ pc = "CompareLocal"
    /\ uselocalfile
    /\ pc' = "Failed"
    /\ UNCHANGED serverVars
    /\ UNCHANGED <<tr, pos, trout, closes>>
    /\ UNCHANGED scanVars

\* mutant of LocalHeader: the index entry's size is kept
LocalHeader_IndexSize(hdr, fi) == hdr

\* client.go:247
LocalHeader(hdr, fi) == [hdr EXCEPT !.size = Len(fi.data)]

\* client.go:251, getfilehash
getfilehash(file) == EncodeToString(Sha1Sum(file.data))

\* mutant of HashMatches: only the lengths of the hex strings are compared
HashMatches_LengthOnly(filehashstr, hashstr) == Len(filehashstr) = Len(hashstr)

\* client.go:252
HashMatches(filehashstr, hashstr) == filehashstr = hashstr

\* mutant of MarkMissing: the bit is not set
MarkMissing_Noop(byte, bit) == byte

\* client.go:264
MarkMissing(byte, bit) == OrBit(byte, bit)

\* mutant of FlushDue: the byte is flushed before its first bit, not after
\* its last
FlushDue_FirstBit(bit) == bit = 7

\* client.go:266
FlushDue(bit) == bit = 0

\* size, hash compare, bit, flush, then skip or write the local file
CompareLocal ==
    /\ pc = "CompareLocal"
    /\ \E readok \in BOOLEAN :
        LET hdr == IF uselocalfile THEN LocalHeader(tr[pos], tmpfile) ELSE tr[pos]
            hashstr == EncodeToString(tr[pos].data)
            use == /\ uselocalfile
                   /\ readok
                   /\ HashMatches(getfilehash(tmpfile), hashstr)
            byte == IF use THEN bitmapbyte ELSE MarkMissing(bitmapbyte, bitindex)
        IN  /\ IF FlushDue(bitindex)
               THEN /\ requestefilesbitmap' = Append(requestefilesbitmap, byte)
                    /\ bitmapbyte' = 0
               ELSE /\ requestefilesbitmap' = requestefilesbitmap
                    /\ bitmapbyte' = byte
            /\ IF use
               THEN /\ trout' = Append(trout, [hdr EXCEPT !.data = tmpfile.data])
                    /\ missingfiles' = missingfiles
               ELSE /\ trout' = trout
                    /\ missingfiles' = missingfiles + 1
            /\ uselocalfile' = use
            /\ decisions' = Append(decisions, ~use)
    /\ tmpfile' = NoFile
    /\ pos' = pos + 1
    /\ pc' = "ScanLocal"
    /\ UNCHANGED serverVars
    /\ UNCHANGED <<tr, closes, regularfileindex, bitindex, counters>>

\* mutants of NeedDiff: a diff for one missing file is skipped; a diff is
\* always requested
NeedDiff_MoreThanOne(missing) == missing > 1
NeedDiff_Always(missing) == missing >= 0

\* client.go:319
NeedDiff(missing) == missing > 0

\* mutant of FinalBytes: an empty current byte is not written
FinalBytes_SkipEmpty(buffer, byte) ==
    IF byte = 0 THEN buffer ELSE Append(buffer, byte)

\* client.go:313
FinalBytes(buffer, byte) == Append(buffer, byte)

\* io.EOF of the index: the current bitmapbyte is always written
ScanEnd ==
    /\ pc = "ScanLocal"
    /\ pos > Len(tr)
    /\ requestefilesbitmap' = FinalBytes(requestefilesbitmap, bitmapbyte)
    /\ pc' = IF NeedDiff(missingfiles) THEN "RequestDiff" ELSE "Finalize"
    /\ UNCHANGED serverVars
    /\ UNCHANGED <<tr, pos, trout, closes, regularfileindex, bitindex,
                   bitmapbyte, missingfiles, tmpfile, uselocalfile, decisions,
                   counters>>

\* step 2: gzip the bitmap, http.Post, gzip.NewReader on the diff
RequestDiff ==
    /\ pc = "RequestDiff"
    /\ LET body == GzipBody(requestefilesbitmap)
           r == handler("POST", body)
       IN  /\ req' = Request("client", "POST", body)
           /\ resp' = IF serverUp THEN r ELSE NoResponse
           /\ serverUp' = (serverUp /\ StillUp(r))
           /\ IF serverUp /\ Readable(r)
              THEN /\ pc' = "MergeDiff"
                   /\ tr' = r.entries
              ELSE /\ pc' = "Failed"
                   /\ tr' = tr
    /\ pos' = 1
    /\ UNCHANGED <<archive, fileState, conns, trout, closes>>
    /\ UNCHANGED scanVars

\* mutant of MergeWrite: the downloaded entry goes in front
MergeWrite_InFront(out, hdr) == <<WithPayload(hdr)>> \o out

\* client.go:373-379
MergeWrite(out, hdr) == Append(out, WithPayload(hdr))

\* a downloaded entry is written to the output archive
MergeNext ==
    /\ pc = "MergeDiff"
    /\ pos <= Len(tr)
    /\ trout' = MergeWrite(trout, tr[pos])
    /\ pos' = pos + 1
    /\ UNCHANGED serverVars
    /\ UNCHANGED <<pc, tr, closes>>
    /\ UNCHANGED scanVars

MergeEnd ==
    /\ pc = "MergeDiff"
    /\ pos > Len(tr)
    /\ pc' = "Finalize"
    /\ UNCHANGED serverVars
    /\ UNCHANGED <<tr, pos, trout, closes>>
    /\ UNCHANGED scanVars

\* trout.Close(), archiveout.Close()
Finalize ==
    /\ pc = "Finalize"
    /\ closes' = closes + 1
    /\ pc' = "Done"
    /\ UNCHANGED serverVars
    /\ UNCHANGED <<tr, pos, trout>>
    /\ UNCHANGED scanVars

Next ==
    \/ PeerRequest
    \/ RequestIndex
    \/ ScanRegular
    \/ ScanOther
    \/ StatFails
    \/ CompareLocal
    \/ ScanEnd
    \/ RequestDiff
    \/ MergeNext
    \/ MergeEnd
    \/ Finalize

Spec == Init /\ [][Next]_vars

\* the client is one sequential process: while it has a step to take, it
\* takes one
ClientStep ==
    \/ RequestIndex
    \/ ScanRegular
    \/ ScanOther
    \/ StatFails
    \/ CompareLocal
    \/ ScanEnd
    \/ RequestDiff
    \/ MergeNext
    \/ MergeEnd
    \/ Finalize

LiveSpec == Spec /\ WF_vars(ClientStep)

\* --------------------------------------------- requests served at once
\* The server alone, its handler calls interleaved entry by entry.
ConcRequests ==
    {r \in PeerRequests : r.body.kind # "gz" \/ Len(r.body.data) <= 1}

ConcInit ==
    /\ Init
    /\ Len(archive) < MaxLen

\* the handler returns (or panics) before its loop: method, body and the
\* opening of the archive
EndsBeforeLoop(method, body) ==
    \/ method \notin {"GET", "POST"}
    \/ method = "POST" /\ body.kind # "gz"
    \/ fileState \in {"absent", "badgzip"}

Finished(c, outcome) ==
    [c EXCEPT !.state = "done",
              !.resp = TgzResponse(c.tarout, outcome, c.counters)]
\* the process exited under a handler that was still running
Cut(c) ==
    [c EXCEPT !.state = "cut",
              !.resp = TgzResponse(c.tarout, "cut", c.counters)]

\* connection i goes on as c; outcome "exit" is log.Fatal: os.Exit ends every
\* goroutine of the process
ConnStep(i, c, outcome) ==
    /\ conns' = [j \in Conns |->
                    IF j = i THEN c
                    ELSE IF outcome = "exit" /\ conns[j].state = "running"
                    THEN Cut(conns[j])
                    ELSE conns[j]]
    /\ serverUp' = (outcome # "exit")
    /\ UNCHANGED <<archive, fileState, req, resp, pc, tr, pos, trout, closes>>
    /\ UNCHANGED scanVars

\* handler is called: everything before the loop over the archive
ConnStart(i) ==
    /\ serverUp
    /\ conns[i].state = "idle"
    /\ \E r \in ConcRequests :
        LET c == [conns[i] EXCEPT !.method = r.method, !.body = r.body]
        IN  IF EndsBeforeLoop(r.method, r.body)
            THEN ConnStep(i, [c EXCEPT !.state = "done",
                                       !.resp = handler(r.method, r.body)],
                          "returned")
            ELSE ConnStep(i, [c EXCEPT !.state = "running"], "running")

\* one iteration of the loop of indextarhandler or difftarhandler
ConnEntry(i) ==
    /\ serverUp
    /\ conns[i].state = "running"
    /\ conns[i].pos <= Len(archive)
    /\ LET c == conns[i]
           hdr == archive[c.pos]
           byteindex == DiffByteIndex(c.regularfileindex)
           bit == DiffBitIndex(c.regularfileindex)
           seen == [c EXCEPT !.counters = Append(@, c.regularfileindex)]
           on == [seen EXCEPT !.pos = @ + 1, !.regularfileindex = @ + 1]
       IN  IF c.method = "GET"
           THEN ConnStep(i, [c EXCEPT !.pos = @ + 1,
                                      !.tarout = Append(@, IndexEntry(hdr))],
                         "running")
           ELSE IF ~DiffCounted(hdr)
           THEN ConnStep(i, [c EXCEPT !.pos = @ + 1,
                                      !.counters = Append(@, NoCounter)],
                         "running")
           ELSE IF OutOfBounds(byteindex, Len(c.body.data))
           THEN ConnStep(i, Finished(seen, "exit"), "exit")
           ELSE IF byteindex >= Len(c.body.data)
           THEN ConnStep(i, Finished(seen, "panic"), "panic")
           ELSE IF Requested(c.body.data, byteindex, bit)
           THEN ConnStep(i, [on EXCEPT !.tarout = Append(@, hdr)], "running")
           ELSE ConnStep(i, on, "running")

\* tr.Next() at the end of the stream
ConnEnd(i) ==
    /\ serverUp
    /\ conns[i].state = "running"
    /\ conns[i].pos > Len(archive)
    /\ ConnStep(i, Finished(conns[i], EndOfStream), EndOfStream)

ConcNext ==
    \/ \E i \in Conns : ConnStart(i)
    \/ \E i \in Conns : ConnEntry(i)
    \/ \E i \in Conns : ConnEnd(i)

ConcSpec == ConcInit /\ [][ConcNext]_vars

\* ------------------------------------------------------- what is claimed
Range(seq) == {seq[i] : i \in DOMAIN seq}
Occurrences(seq, x) == Cardinality({i \in DOMAIN seq : seq[i] = x})
Names(seq) == [i \in DOMAIN seq |-> seq[i].name]

\* a regular file of nonzero size, the only kind that takes a counter value
NonEmptyRegular(e) == e.typeflag = TypeReg /\ e.size > 0
CountedIn(src) == {p \in DOMAIN src : NonEmptyRegular(src[p])}
NumCounted(src) == Cardinality(CountedIn(src))
\* the RegularFileCounter value of entry p of src
CounterAt(src, p) == Cardinality({q \in CountedIn(src) : q < p})
CountersOf(src) ==
    [p \in DOMAIN src |->
        IF NonEmptyRegular(src[p]) THEN CounterAt(src, p) ELSE NoCounter]

\* bit i of a bitmap, MSB first: (bytes[i/8] >> (7 - i%8)) & 1
BitOf(bytes, i) == (bytes[(i \div 8) + 1] \div Pow2(7 - (i % 8))) % 2
AnyBitSet(bytes) == \E k \in DOMAIN bytes : bytes[k] # 0

ClientPosted == req.from = "client" /\ req.method = "POST"
\* the scan has ended and the bitmap is complete
ScanDone ==
    \/ pc \in {"RequestDiff", "MergeDiff", "Finalize", "Done"}
    \/ pc = "Failed" /\ ClientPosted
BitmapPosted == req.method = "POST" /\ req.body.kind = "gz"
LongEnough(src, bytes) == 8 * Len(bytes) >= NumCounted(src)

\* C1: a sync that ends in Done leaves an output archive with exactly one
\* entry per entry of the source archive: as many entries, and every name as
\* often as in the source (none duplicated, none omitted).
C1_Completeness ==
    pc = "Done" =>
        /\ Len(trout) = Len(archive)
        /\ \A n \in Range(Names(archive)) \cup Range(Names(trout)) :
              Occurrences(Names(trout), n) = Occurrences(Names(archive), n)

\* a finished sync of three entries: one uncounted, one taken from the
\* reference tree, one fetched
C1_Witness ==
    /\ pc = "Done"
    /\ Len(archive) = 3
    /\ NumCounted(archive) = 2
    /\ decisions = <<FALSE, TRUE>>
    /\ ClientPosted

\* C2: after a sync that ends in Done every output entry is, in name, kind,
\* size and payload, a source entry, and every source entry is in the output
\* as often as in the source, whether copied from the reference tree or
\* fetched.
C2_ContentIdentity ==
    pc = "Done" =>
        \A e \in Range(archive) \cup Range(trout) :
            Occurrences(trout, e) = Occurrences(archive, e)

\* a finished sync with a two-byte file taken from the reference tree (its
\* index entry has size 20) and another file fetched
C2_Witness ==
    /\ pc = "Done"
    /\ \E p \in DOMAIN archive :
          /\ NonEmptyRegular(archive[p])
          /\ archive[p].size = 2
          /\ ~decisions[CounterAt(archive, p) + 1]
    /\ TRUE \in Range(decisions)

\* C3: the client posts a diff request iff the bitmap has a set bit; with
\* every counted file satisfied the bitmap is all zero and nothing is posted.
C3_DiffIffBitSet ==
    /\ ClientPosted => AnyBitSet(requestefilesbitmap)
    /\ pc \in {"RequestDiff", "MergeDiff"} => AnyBitSet(requestefilesbitmap)
    /\ pc \in {"Finalize", "Done"} =>
          (ClientPosted <=> AnyBitSet(requestefilesbitmap))
    /\ (ScanDone /\ \A i \in DOMAIN decisions : ~decisions[i]) =>
          /\ ~AnyBitSet(requestefilesbitmap)
          /\ ~ClientPosted
          /\ pc \in {"Finalize", "Done"}

\* a finished sync over two counted files, both satisfied, without a POST
C3_Witness ==
    /\ pc = "Done"
    /\ decisions = <<FALSE, FALSE>>
    /\ req = Request("client", "GET", NoBody)
    /\ requestefilesbitmap = <<0>>

\* the entries of src whose counter's bit is set, in source order
DiffPicked(src, bytes) ==
    {p \in CountedIn(src) : BitOf(bytes, CounterAt(src, p)) = 1}
NthOf(S, k) == CHOOSE p \in S : Cardinality({q \in S : q < p}) = k - 1

\* C4: for a bitmap long enough for the archive, the POST response holds
\* exactly the nonzero-size regular files whose bit is 1, each once, in
\* source order, and nothing else.
C4_DiffSelection ==
    (BitmapPosted /\ fileState = "ok" /\ LongEnough(archive, req.body.data)) =>
        LET picked == DiffPicked(archive, req.body.data)
        IN  /\ resp.kind = "tgz"
            /\ resp.complete
            /\ resp.status = StatusOK
            /\ Len(resp.entries) = Cardinality(picked)
            /\ \A k \in DOMAIN resp.entries :
                  resp.entries[k] = archive[NthOf(picked, k)]

\* three counted files, bitmap 10100000: the first and the third are sent
C4_Witness ==
    /\ req = Request("peer", "POST", GzipBody(<<160>>))
    /\ fileState = "ok"
    /\ NumCounted(archive) = 3
    /\ Len(resp.entries) = 2
    /\ resp.entries[2] = archive[3]

\* C5: the bit the server reads for counter i in the bitmap the client packed
\* is 1 iff the client marked file i missing; [dir, satisfied, missing]
\* packs to the single byte 01000000.
C5_BitmapRoundTrip ==
    ScanDone =>
        /\ \A i \in 0..(Len(decisions) - 1) :
              /\ DiffByteIndex(i) < Len(requestefilesbitmap)
              /\ Requested(requestefilesbitmap, DiffByteIndex(i), DiffBitIndex(i))
                    <=> decisions[i + 1]
        /\ (/\ Len(archive) = 3
            /\ ~NonEmptyRegular(archive[1])
            /\ decisions = <<FALSE, TRUE>>) => requestefilesbitmap = <<64>>

\* the scenario of the spec, the scan just ended
C5_Witness ==
    /\ pc = "RequestDiff"
    /\ archive = <<Header("a/", TypeDir, <<>>), Header("a/x", TypeReg, <<1>>),
                   Header("a/y", TypeReg, <<2, 2>>)>>
    /\ decisions = <<FALSE, TRUE>>
    /\ requestefilesbitmap = <<64>>

CeilDiv8(n) == (n + 7) \div 8
Max(a, b) == IF a >= b THEN a ELSE b

\* C6 as claimed: the emitted bitmap has max(1, ceil(N/8)) bytes for N
\* counted files.
C6_LengthCeil ==
    ScanDone =>
        Len(requestefilesbitmap) = Max(1, CeilDiv8(NumCounted(archive)))

\* C6 as amended: the emitted bitmap has floor(N/8) + 1 bytes for N counted
\* files: one zero byte for an archive without counted files, ceil(N/8) bytes
\* unless N is a positive multiple of 8, and then N/8 + 1 bytes, the last
\* one zero.
C6_LengthFloorPlusOne ==
    ScanDone =>
        LET n == NumCounted(archive)
            len == Len(requestefilesbitmap)
        IN  /\ len = (n \div 8) + 1
            /\ n = 0 => requestefilesbitmap = <<0>>
            /\ n % 8 # 0 => len = CeilDiv8(n)
            /\ (n > 0 /\ n % 8 = 0) =>
                  /\ len = (n \div 8) + 1
                  /\ requestefilesbitmap[len] = 0

\* eight counted files: a flushed byte and the final byte
C6_Witness ==
    /\ ScanDone
    /\ NumCounted(archive) = 8
    /\ Len(requestefilesbitmap) = 2
    /\ requestefilesbitmap[1] # 0

\* C7: the client's scan of the index and the server's diff walk give every
\* entry of the same source archive the same counter value: the number of
\* nonzero-size regular files before it, and none to any other entry.
C7_CounterDeterminism ==
    /\ ScanDone => counters = CountersOf(archive)
    /\ (BitmapPosted /\ fileState = "ok" /\ resp.outcome = "returned") =>
          resp.counters = CountersOf(archive)
    /\ (ClientPosted /\ resp.outcome = "returned") => resp.counters = counters

\* the client's diff was served for an archive with an empty file before a
\* counted one
C7_Witness ==
    /\ ClientPosted
    /\ resp.outcome = "returned"
    /\ Len(archive) = 3
    /\ archive[1].typeflag = TypeReg /\ archive[1].size = 0
    /\ archive[2].typeflag = TypeDir
    /\ NonEmptyRegular(archive[3])
    /\ resp.counters = <<NoCounter, NoCounter, 0>>

\* the local copy under comparison differs from the payload of the source
\* entry the index entry stands for
LocalDiffers ==
    /\ pc = "CompareLocal"
    /\ tmpfile.exists
    /\ tmpfile.data # archive[pos].data

\* C8: a compare step over a local file that differs from the server's
\* version writes nothing, and when the scan goes on the entry is marked
\* missing: its bit is 1 in the bytes flushed or pending.  No output entry
\* ever has a payload other than its source entry's.
C8_HashFidelity ==
    /\ [][LocalDiffers =>
            /\ trout' = trout
            /\ pc' = "ScanLocal" =>
                  /\ decisions' = Append(decisions, TRUE)
                  /\ missingfiles' = missingfiles + 1
                  /\ BitOf(Append(requestefilesbitmap', bitmapbyte'),
                           regularfileindex - 1) = 1]_vars
    /\ [](\A k \in DOMAIN trout : trout[k] \in Range(archive))

\* a local file of the same size as the server's and another content
C8_Witness ==
    /\ LocalDiffers
    /\ Len(tmpfile.data) = Len(archive[pos].data)
    /\ trout # <<>>

\* C9: serving a posted bitmap never indexes it out of range: a counter
\* whose byte index is at or beyond the bitmap's length ends in the bounds
\* check (log.Fatalln), never in an out-of-range read.
C9_BoundsChecked ==
    (BitmapPosted /\ fileState = "ok") =>
        /\ resp.outcome # "panic"
        /\ ~LongEnough(archive, req.body.data) => resp.outcome = "exit"

\* C10: a posted bitmap with fewer bytes than the archive's counted files
\* need is answered with status 500 and a diagnostic text.
C10_ShortBitmap500 ==
    (BitmapPosted /\ fileState = "ok" /\ ~LongEnough(archive, req.body.data)) =>
        /\ resp.status = StatusInternalServerError
        /\ resp.kind = "text"

Served == req # NoRequest /\ resp # NoResponse
OpensArchive == req.method = "GET" \/ BitmapPosted

\* C11: a GET or POST for an absent archive is answered 404, one for a file
\* that is no valid gzip/tar archive is answered 500, and neither response
\* holds index or diff entries.
C11_ArchiveOpenStatus ==
    (Served /\ OpensArchive) =>
        /\ fileState = "absent" =>
              resp.status = StatusNotFound /\ resp.entries = <<>>
        /\ fileState \in {"badgzip", "truncated"} =>
              resp.status = StatusInternalServerError /\ resp.entries = <<>>

\* C12: a GET is answered by the index handler alone, a POST by the diff
\* handler alone, and any other method by 405 with the archive left unopened
\* (whatever its state, the process stays up) and no archive data written.
C12_MethodDispatch ==
    Served =>
        /\ req.method = "GET" =>
              /\ resp.counters = <<>>
              /\ fileState = "ok" =>
                    /\ resp.kind = "tgz"
                    /\ Len(resp.entries) = Len(archive)
                    /\ \A p \in CountedIn(archive) :
                          resp.entries[p].size = Sha1Size
        /\ BitmapPosted =>
              /\ fileState = "ok" =>
                    /\ resp.kind = "tgz"
                    /\ Len(resp.counters) <= Len(archive)
                    /\ resp.outcome = "returned" =>
                          Len(resp.counters) = Len(archive)
                    /\ \A k \in DOMAIN resp.entries :
                          resp.entries[k] \in Range(archive)
        /\ req.method \notin {"GET", "POST"} =>
              /\ resp.status = StatusMethodNotAllowed
              /\ resp.kind = "text"
              /\ resp.entries = <<>>
              /\ resp.counters = <<>>
              /\ serverUp

\* a PUT for an archive whose tar stream is cut: opening it would end the
\* process
C12_Witness ==
    /\ req = Request("peer", "PUT", NoBody)
    /\ fileState = "truncated"
    /\ resp.status = StatusMethodNotAllowed
    /\ serverUp

\* C13: an error while serving a request ends that request only: the process
\* is still up after every request, and the client's later GET is served in
\* full.
C13_FailureIsolation ==
    /\ Served => serverUp
    /\ (req = Request("client", "GET", NoBody) /\ fileState = "ok") =>
          resp.complete

\* what the peer of a connection gets
Seen(response) ==
    [status |-> response.status, kind |-> response.kind,
     text |-> response.text, entries |-> response.entries,
     complete |-> response.complete]
Over(c) == c.state \in {"done", "cut"}

\* C14: whatever the interleaving, a request served beside others is
\* answered as it is when served alone.
C14_ServedAsAlone ==
    \A i \in Conns :
        Over(conns[i]) =>
            Seen(conns[i].resp) = Seen(handler(conns[i].method, conns[i].body))

\* the same for archives that open and read to their end: there the handlers
\* share nothing
ServedAsAloneWhenIntact ==
    fileState # "truncated" => C14_ServedAsAlone

\* the entries of src at the positions S, in source order
SubSeqAt(src, S) == [k \in 1..Cardinality(S) |-> src[NthOf(S, k)]]

\* C15: the index of an archive has the archive's entries in number and
\* order; a nonzero-size regular file keeps name and kind and gets size 20
\* and the 20-byte hash of its payload, every other entry is unchanged.
C15_IndexShape ==
    (Served /\ req.method = "GET" /\ fileState = "ok") =>
        /\ resp.complete
        /\ Len(resp.entries) = Len(archive)
        /\ \A p \in DOMAIN archive :
              IF NonEmptyRegular(archive[p])
              THEN /\ resp.entries[p].name = archive[p].name
                   /\ resp.entries[p].typeflag = archive[p].typeflag
                   /\ resp.entries[p].size = Sha1Size
                   /\ Len(resp.entries[p].data) = Sha1Size
                   /\ resp.entries[p].data = Sha1Sum(archive[p].data)
              ELSE resp.entries[p] = archive[p]

\* the index of [empty file, payload of another kind, two-byte file]
C15_Witness ==
    /\ req.method = "GET"
    /\ resp.complete
    /\ Len(archive) = 3
    /\ archive[1].typeflag = TypeReg /\ archive[1].size = 0
    /\ archive[2].typeflag = TypeCont
    /\ NonEmptyRegular(archive[3]) /\ archive[3].size = 2
    /\ resp.entries[3].size = Sha1Size

\* counted entries by the bit the finished bitmap has for them
BitZeroAt == {p \in CountedIn(archive) :
                BitOf(requestefilesbitmap, CounterAt(archive, p)) = 0}
BitOneAt == CountedIn(archive) \ BitZeroAt
\* the entries written before the merge
ScanPart ==
    LET n == Len(archive) - Cardinality(BitOneAt)
    IN  IF Len(trout) >= n THEN SubSeq(trout, 1, n) ELSE trout

\* C16: after the scan every counted entry either was written in the scan
\* and has bit 0, or was not written and has bit 1; the diff the client gets
\* holds exactly the entries with bit 1, and the finished output has no entry
\* twice.
C16_ScanExclusive ==
    ScanDone =>
        /\ \A c \in 0..(Len(decisions) - 1) :
              BitOf(requestefilesbitmap, c) = (IF decisions[c + 1] THEN 1 ELSE 0)
        /\ Len(ScanPart) = Len(archive) - Cardinality(BitOneAt)
        /\ SelectSeq(ScanPart, NonEmptyRegular) = SubSeqAt(archive, BitZeroAt)
        /\ pc = "MergeDiff" => tr = SubSeqAt(archive, BitOneAt)
        /\ pc = "Done" => Len(trout) = Len(archive)

\* the scan ended with the first counted file missing and the second written
C16_Witness ==
    /\ pc = "RequestDiff"
    /\ decisions = <<TRUE, FALSE>>
    /\ requestefilesbitmap = <<128>>
    /\ Len(SelectSeq(trout, NonEmptyRegular)) = 1

\* C17: no step over a counted index entry (copy of the local file, its
\* size, its hash, the comparison) ends the client run.
C17_LocalFailuresRecoverable ==
    [][(/\ pc \in {"ScanLocal", "CompareLocal"}
        /\ pos <= Len(tr)
        /\ ClientCounted(tr[pos])) => pc' # "Failed"]_vars

MissingAt == {p \in CountedIn(archive) : decisions[CounterAt(archive, p) + 1]}

\* C18: the finished output is the uncounted and the satisfied entries in
\* source order, then the fetched entries in the order the server sent them,
\* which is source order.
C18_OutputOrder ==
    pc = "Done" =>
        /\ trout = SubSeqAt(archive, DOMAIN archive \ MissingAt)
                      \o SubSeqAt(archive, MissingAt)
        /\ ClientPosted =>
              /\ resp.entries = SubSeqAt(archive, MissingAt)
              /\ SubSeq(trout, Len(trout) - Len(resp.entries) + 1, Len(trout))
                    = resp.entries

\* three counted files, the first and the third fetched: the output is
\* second, first, third
C18_Witness ==
    /\ pc = "Done"
    /\ Len(archive) = 3
    /\ decisions = <<TRUE, FALSE, TRUE>>
    /\ trout = <<archive[2], archive[1], archive[3]>>
    /\ archive[1] # archive[2]

Rank(phase) ==
    CASE phase = "RequestIndex" -> 0
      [] phase \in {"ScanLocal", "CompareLocal"} -> 1
      [] phase = "RequestDiff" -> 2
      [] phase = "MergeDiff" -> 3
      [] phase = "Finalize" -> 4
      [] OTHER -> 5
Terminal == {"Done", "Failed"}

\* C19: the client never goes back to an earlier phase, is in RequestDiff or
\* MergeDiff only with a file missing, ends in Done or Failed and stays
\* there; the output writer is closed once, by Finalize, and exactly on the
\* runs that are in Done.
C19_PhaseOrder ==
    /\ [][/\ Rank(pc') >= Rank(pc)
          /\ pc \in Terminal => pc' = pc
          /\ closes' # closes =>
                pc = "Finalize" /\ pc' = "Done" /\ closes' = 1]_vars
    /\ [](pc \in {"RequestDiff", "MergeDiff"} => missingfiles > 0)
    /\ [](closes = (IF pc = "Done" THEN 1 ELSE 0))
    /\ <>(pc \in Terminal)

\* a run that went through every phase
C19_Witness ==
    /\ pc = "Done"
    /\ closes = 1
    /\ ClientPosted
    /\ Len(trout) = 3

\* C20: the walk that serves the client's own bitmap returns: every counter
\* it reaches has its byte inside the bitmap, so neither the bounds check nor
\* an out-of-range read ends it.
C20_HonestClientInBounds ==
    ClientPosted =>
        /\ req.body.data = requestefilesbitmap
        /\ resp.outcome = "returned"
        /\ Len(resp.counters) = Len(archive)
        /\ \A k \in DOMAIN resp.counters :
              resp.counters[k] # NoCounter =>
                  /\ DiffByteIndex(resp.counters[k]) < Len(req.body.data)
                  /\ ~OutOfBounds(DiffByteIndex(resp.counters[k]),
                                  Len(req.body.data))

\* nine counted files: the walk reads the second byte
C20_Witness ==
    /\ ClientPosted
    /\ NumCounted(archive) >= 9
    /\ Len(requestefilesbitmap) = 2
    /\ resp.outcome = "returned"
    /\ \E k \in DOMAIN resp.counters : resp.counters[k] = 8

====
